---- MODULE Spec2Model ----
(***************************************************************************)
(* A model of the infiniter package: the Iter wrapper of iter.py (lazy     *)
(* transformations, finite-only operations, catalog constructors), the    *)
(* primes() generator, and the Generator helper of Generator.py.           *)
(*                                                                         *)
(* Python iterator objects live in a heap `iters`; every Iter wrapper      *)
(* owns exactly one iterator object (Iter.__init__), so a heap cell holds  *)
(* both the iterator's state and the wrapper's _infinite flag.  A pull     *)
(* (next() on an iterator object) is the recursive operator Pull, which    *)
(* returns the outcome together with the heap as the pull left it.         *)
(***************************************************************************)
EXTENDS Integers, Sequences, FiniteSets

\* ------------------------------------------------------------------ bounds
MaxLen == 2
MaxObjs == 3
MaxCalls == 3
MaxPrimes == 110
MaxSrcLen == 4

\* A loop that has not ended after this many pulls never ends: a finite
\* source of the model holds at most MaxLen + 1 elements, and a pipeline
\* draws on fewer than MaxObjs sources.
DrainFuel == MaxObjs * (MaxLen + 1) + 2
\* filter()'s inner loop: the endless streams of the model are arithmetic
\* progressions, so a parity predicate holds within two pulls or never.
ScanFuel == DrainFuel + 2

\* The callables a caller passes in (lambdas; inputs, not program code).
MapFns == {"inc"}
Preds == {"even"}
ApplyFn(f, x) == CASE f = "inc" -> x + 1
ApplyPred(p, x) == CASE p = "even" -> x % 2 = 0
\* filter_map's callable: half of an even number, None (the empty option) else.
ApplyOpt(x) == IF x % 2 = 0 THEN <<x \div 2>> ELSE <<>>

VARIABLES
    iters,      \* heap of iterator objects, each with its wrapper's _infinite
    call,       \* the most recent API call: operation, arguments, outcome
    ncalls,     \* number of API calls made so far
    pstate,     \* frame of the primes() generator
    yielded,    \* elements pulled from primes() so far
    gen,        \* the Generator helper: its source and its _iterator
    got         \* outcomes of the next() calls made on the Generator helper

vars == <<iters, call, ncalls, pstate, yielded, gen, got>>

\* ------------------------------------------------------------ heap objects
Obj(kind, src, a, b, infinite) ==
    [kind |-> kind, src |-> src, a |-> a, b |-> b, done |-> FALSE,
     data |-> <<>>, infinite |-> infinite]

\* Iter.__init__: a new wrapper over a new iterator object.
NewIter(h, o) == Append(h, o)

Ids(h) == 1..Len(h)

\* ------------------------------------------------------------------- pulls
Val(h, v) == [h |-> h, st |-> "val", v |-> v]
Stop(h) == [h |-> h, st |-> "stop", v |-> 0]
Hang(h) == [h |-> h, st |-> "hang", v |-> 0]

RECURSIVE Pull(_, _)
RECURSIVE FilterScan(_, _, _)
RECURSIVE FilterMapScan(_, _, _)
RECURSIVE ZipPull(_, _, _, _)
RECURSIVE ChainPull(_, _)

\* range(stop) / range(start, stop): a is the next value, b the stop.
RangePull(h, i) ==
    IF h[i].a < h[i].b
    THEN Val([h EXCEPT ![i].a = h[i].a + 1], h[i].a)
    ELSE Stop(h)

\* itertools.count(start, step): a is the next value, b the step.
CountPull(h, i) == Val([h EXCEPT ![i].a = h[i].a + h[i].b], h[i].a)

\* itertools.repeat(value[, times]): a is the value, b the remaining count,
\* -1 when no count was given (repeat forever).
RepeatPull(h, i) ==
    IF h[i].b = -1 THEN Val(h, h[i].a)
    ELSE IF h[i].b > 0 THEN Val([h EXCEPT ![i].b = h[i].b - 1], h[i].a)
    ELSE Stop(h)

\* iterator of the list built by sorted(): a is the index of the next item.
ListPull(h, i) ==
    IF h[i].a < Len(h[i].data)
    THEN Val([h EXCEPT ![i].a = h[i].a + 1], h[i].data[h[i].a + 1])
    ELSE Stop(h)

\* builtin map(func, self._iter)
MapPull(h, i) ==
    LET r == Pull(h, h[i].src[1])
    IN  IF r.st = "val" THEN Val(r.h, ApplyFn(h[i].a, r.v)) ELSE r

\* builtin enumerate(self._iter, start): a is the next index.
EnumeratePull(h, i) ==
    LET r == Pull(h, h[i].src[1])
    IN  IF r.st = "val"
        THEN Val([r.h EXCEPT ![i].a = h[i].a + 1], <<h[i].a, r.v>>)
        ELSE r

\* take's generator with `>` for `>=`: one element too many.
TakePullOffByOne(h, i) ==
    IF h[i].done THEN Stop(h)
    ELSE LET r == Pull(h, h[i].src[1])
         IN  IF r.st = "hang" THEN r
             ELSE IF r.st = "stop" THEN Stop([r.h EXCEPT ![i].done = TRUE])
             ELSE IF h[i].b > h[i].a
                  THEN Stop([r.h EXCEPT ![i].done = TRUE, ![i].b = h[i].b + 1])
                  ELSE Val([r.h EXCEPT ![i].b = h[i].b + 1], r.v)

\* take's generator: for i in self.enumerate(): if i[0] >= items: break
\* a is items, b the index the enumerate object gives the next element.
TakePull(h, i) ==
    IF h[i].done THEN Stop(h)
    ELSE LET r == Pull(h, h[i].src[1])
         IN  IF r.st = "hang" THEN r
             ELSE IF r.st = "stop" THEN Stop([r.h EXCEPT ![i].done = TRUE])
             ELSE IF h[i].b >= h[i].a
                  THEN Stop([r.h EXCEPT ![i].done = TRUE, ![i].b = h[i].b + 1])
                  ELSE Val([r.h EXCEPT ![i].b = h[i].b + 1], r.v)

\* builtin filter(predicate, self._iter): pulls until the predicate holds.
FilterScan(h, i, fuel) ==
    IF fuel = 0 THEN Hang(h)
    ELSE LET r == Pull(h, h[i].src[1])
         IN  IF r.st # "val" THEN r
             ELSE IF ApplyPred(h[i].a, r.v) THEN r
             ELSE FilterScan(r.h, i, fuel - 1)

\* filter_map's generator: for item in self._iter: yield func(item) unless None
FilterMapScan(h, i, fuel) ==
    IF h[i].done THEN Stop(h)
    ELSE IF fuel = 0 THEN Hang(h)
    ELSE LET r == Pull(h, h[i].src[1])
         IN  IF r.st = "hang" THEN r
             ELSE IF r.st = "stop" THEN Stop([r.h EXCEPT ![i].done = TRUE])
             ELSE IF ApplyOpt(r.v) # <<>> THEN Val(r.h, ApplyOpt(r.v)[1])
             ELSE FilterMapScan(r.h, i, fuel - 1)

\* builtin zip(self._iter, *iterables): pulls the operands left to right and
\* stops at the first that is exhausted, dropping what it already pulled.
ZipPull(h, i, k, acc) ==
    IF k > Len(h[i].src) THEN Val(h, acc)
    ELSE LET r == Pull(h, h[i].src[k])
         IN  IF r.st # "val" THEN r
             ELSE ZipPull(r.h, i, k + 1, Append(acc, r.v))

\* chain's generator: self first, then each of the iterables in order.
\* a is the index in src of the operand being iterated.
ChainPull(h, i) ==
    IF h[i].done THEN Stop(h)
    ELSE IF h[i].a > Len(h[i].src) THEN Stop([h EXCEPT ![i].done = TRUE])
    ELSE LET r == Pull(h, h[i].src[h[i].a])
         IN  IF r.st # "stop" THEN r
             ELSE ChainPull([r.h EXCEPT ![i].a = h[i].a + 1], i)

\* next() on iterator object i of heap h.
Pull(h, i) ==
    CASE h[i].kind = "range" -> RangePull(h, i)
      [] h[i].kind = "count" -> CountPull(h, i)
      [] h[i].kind = "repeat" -> RepeatPull(h, i)
      [] h[i].kind = "list" -> ListPull(h, i)
      [] h[i].kind = "map" -> MapPull(h, i)
      [] h[i].kind = "enumerate" -> EnumeratePull(h, i)
      [] h[i].kind = "take" -> TakePull(h, i)
      [] h[i].kind = "filter" -> FilterScan(h, i, ScanFuel)
      [] h[i].kind = "filter_map" -> FilterMapScan(h, i, ScanFuel)
      [] h[i].kind = "zip" -> ZipPull(h, i, 1, <<>>)
      [] h[i].kind = "chain" -> ChainPull(h, i)

\* Whether the elements of i are integers (enumerate and zip yield tuples);
\* the callables of the model and sum() take integers only.
RECURSIVE ElemInt(_, _)
ElemInt(h, i) ==
    CASE h[i].kind \in {"range", "count", "repeat", "list", "map", "filter_map"} -> TRUE
      [] h[i].kind \in {"enumerate", "zip"} -> FALSE
      [] OTHER -> \A k \in 1..Len(h[i].src) : ElemInt(h, h[i].src[k])

\* list(it) / the body of a for loop over it: pulls until StopIteration.
RECURSIVE Drain(_, _, _, _)
Drain(h, i, acc, fuel) ==
    IF fuel = 0 THEN [h |-> h, st |-> "hang", v |-> acc]
    ELSE LET r == Pull(h, i)
         IN  IF r.st = "hang" THEN [h |-> r.h, st |-> "hang", v |-> acc]
             ELSE IF r.st = "stop" THEN [h |-> r.h, st |-> "ok", v |-> acc]
             ELSE Drain(r.h, i, Append(acc, r.v), fuel - 1)

\* n direct next() calls on i: the elements they return, and the heap after.
RECURSIVE PullN(_, _, _, _)
PullN(h, i, n, acc) ==
    IF n = 0 THEN [h |-> h, st |-> "ok", v |-> acc]
    ELSE LET r == Pull(h, i)
         IN  IF r.st # "val" THEN [h |-> r.h, st |-> r.st, v |-> acc]
             ELSE PullN(r.h, i, n - 1, Append(acc, r.v))

\* ------------------------------------------------------- finite-only guard
Raise(h) == [h |-> h, st |-> "InfiniteIteratorError", v |-> <<>>]

\* requires_finite checking the flag only after the method has run.
RequiresFiniteLate(h, w, body) ==
    IF h[w].infinite /\ body.st # "hang" THEN Raise(body.h) ELSE body

\* requires_finite's wrapper: raise when self._infinite, else call the method.
RequiresFinite(h, w, body) == IF h[w].infinite THEN Raise(h) ELSE body

RECURSIVE SeqSum(_)
SeqSum(s) == IF s = <<>> THEN 0 ELSE s[1] + SeqSum(Tail(s))

\* sorted(): insertion of x into an ascending (descending when reverse) list.
RECURSIVE Insert(_, _, _)
Insert(x, s, reverse) ==
    IF s = <<>> THEN <<x>>
    ELSE IF (IF reverse THEN x > s[1] ELSE x < s[1]) THEN <<x>> \o s
    ELSE <<s[1]>> \o Insert(x, Tail(s), reverse)

RECURSIVE Sorted(_, _)
Sorted(s, reverse) ==
    IF s = <<>> THEN <<>>
    ELSE Insert(s[Len(s)], Sorted(SubSeq(s, 1, Len(s) - 1), reverse), reverse)

\* Iter.sum: sum(self._iter)
SumOp(h, w) ==
    RequiresFinite(h, w,
        LET d == Drain(h, w, <<>>, DrainFuel)
        IN  [h |-> d.h, st |-> d.st, v |-> SeqSum(d.v)])

\* Iter.collect: list(self)
CollectOp(h, w) == RequiresFinite(h, w, Drain(h, w, <<>>, DrainFuel))

\* Iter.sort: Iter(sorted(self, key=key, reverse=reverse))
SortOp(h, w, reverse) ==
    RequiresFinite(h, w,
        LET d == Drain(h, w, <<>>, DrainFuel)
            o == [Obj("list", <<>>, 0, 0, FALSE) EXCEPT !.data = Sorted(d.v, reverse)]
        IN  IF d.st = "hang" THEN d
            ELSE [h |-> NewIter(d.h, o), st |-> "ok", v |-> Len(d.h) + 1])

\* Iter.__len__: total = i[0] for each i of self.enumerate(); -1 when infinite
RECURSIVE LenLoop(_, _, _, _, _)
LenLoop(h, i, idx, total, fuel) ==
    IF fuel = 0 THEN Hang(h)
    ELSE LET r == Pull(h, i)
         IN  IF r.st = "hang" THEN r
             ELSE IF r.st = "stop" THEN [h |-> r.h, st |-> "ok", v |-> total]
             ELSE LenLoop(r.h, i, idx + 1, idx, fuel - 1)

LenOp(h, w) ==
    IF h[w].infinite THEN [h |-> h, st |-> "ok", v |-> -1]
    ELSE LenLoop(h, w, 0, 0, DrainFuel)

\* Iter.__getitem__: the element of self.enumerate() whose index is `index`;
\* the result is an option: <<v>>, or <<>> for None.
RECURSIVE GetLoop(_, _, _, _, _)
GetLoop(h, i, idx, index, fuel) ==
    IF fuel = 0 THEN Hang(h)
    ELSE LET r == Pull(h, i)
         IN  IF r.st = "hang" THEN r
             ELSE IF r.st = "stop" THEN [h |-> r.h, st |-> "ok", v |-> <<>>]
             ELSE IF idx = index THEN [h |-> r.h, st |-> "ok", v |-> <<r.v>>]
             ELSE GetLoop(r.h, i, idx + 1, index, fuel - 1)

\* __getitem__ counting from one.
GetItemOpOneBased(h, w, index) == GetLoop(h, w, 1, index, DrainFuel)

GetItemOp(h, w, index) == GetLoop(h, w, 0, index, DrainFuel)

\* Iter.__next__: next(self._iter)
NextOp(h, w) ==
    LET r == Pull(h, w)
    IN  [h |-> r.h, st |-> CASE r.st = "val" -> "ok"
                             [] r.st = "stop" -> "StopIteration"
                             [] OTHER -> "hang", v |-> r.v]

\* --------------------------------------------------- lazy transformations
Created(h, o) == [h |-> NewIter(h, o), st |-> "ok", v |-> Len(h) + 1]

\* Iter.map: Iter(map(func, self._iter))
MapOp(h, w, f) == Created(h, Obj("map", <<w>>, f, 0, FALSE))
\* Iter.filter: Iter(filter(predicate, self._iter))
FilterOp(h, w, p) == Created(h, Obj("filter", <<w>>, p, 0, FALSE))
\* Iter.filter_map: Iter(gen())
FilterMapOp(h, w) == Created(h, Obj("filter_map", <<w>>, 0, 0, FALSE))
\* Iter.enumerate: Iter(enumerate(self._iter, start))
EnumerateOp(h, w, start) == Created(h, Obj("enumerate", <<w>>, start, 0, FALSE))
\* Iter.chain: Iter(gen())
ChainOp(h, w, others) == Created(h, Obj("chain", <<w>> \o others, 1, 0, FALSE))
\* Iter.zip: Iter(zip(self._iter, *iterables))
ZipOp(h, w, others) == Created(h, Obj("zip", <<w>> \o others, 0, 0, FALSE))
\* Iter.take: Iter(gen())
TakeOp(h, w, items) == Created(h, Obj("take", <<w>>, items, 0, FALSE))

\* ------------------------------------------------------------ constructors
\* Iter(iterable, infinite) over a list
WrapOp(h, xs, infinite) ==
    Created(h, [Obj("list", <<>>, 0, 0, infinite) EXCEPT !.data = xs])
\* Iter.range: Iter(range(*args))
RangeOp(h, stop) == Created(h, Obj("range", <<>>, 0, stop, FALSE))
\* Iter.count: Iter(itertools.count(start, step), infinite=True)
CountOp(h, start, step) == Created(h, Obj("count", <<>>, start, step, TRUE))
\* Iter.repeat: `if times:` decides between the bounded and the endless repeat
RepeatOp(h, value, given, times) ==
    IF given /\ times # 0
    THEN Created(h, Obj("repeat", <<>>, value, IF times < 0 THEN 0 ELSE times, FALSE))
    ELSE Created(h, Obj("repeat", <<>>, value, -1, TRUE))

\* ------------------------------------------------------------ API actions
NoCall == [op |-> "none", self |-> 0, n |-> 0, given |-> FALSE, others |-> <<>>,
           pre |-> <<>>, status |-> "ok", ret |-> 0]

WrapLists == {<<3, 1, 2>>}
Values == {7}

\* One API call: its arguments, the heap it found (pre) and its outcome are
\* logged, and the heap is as the call left it.
\* A call that never returns (status "hang") ends the session.
Do(op, self, n, given, others, res) == \E r \in {res} :
    /\ iters' = IF r.st = "hang" THEN iters ELSE r.h
    /\ call' = [op |-> op, self |-> self, n |-> n, given |-> given,
                others |-> others, pre |-> iters, status |-> r.st, ret |-> r.v]
    /\ ncalls' = ncalls + 1
    /\ UNCHANGED <<pstate, yielded, gen, got>>

CanCall == ncalls < MaxCalls /\ call.status # "hang"
CanCreate == CanCall /\ Len(iters) < MaxObjs

Wrap(xs, infinite) == CanCreate /\ Do("wrap", 0, 0, infinite, <<>>, WrapOp(iters, xs, infinite))
Range(stop) == CanCreate /\ Do("range", 0, stop, FALSE, <<>>, RangeOp(iters, stop))
Count(start, step) == CanCreate /\ Do("count", 0, start, FALSE, <<>>, CountOp(iters, start, step))
Repeat(value, given, times) ==
    CanCreate /\ Do("repeat", 0, times, given, <<value>>, RepeatOp(iters, value, given, times))

Map(w, f) == CanCreate /\ ElemInt(iters, w) /\ Do("map", w, 0, FALSE, <<>>, MapOp(iters, w, f))
Filter(w, p) == CanCreate /\ ElemInt(iters, w) /\ Do("filter", w, 0, FALSE, <<>>, FilterOp(iters, w, p))
FilterMap(w) == CanCreate /\ ElemInt(iters, w) /\ Do("filter_map", w, 0, FALSE, <<>>, FilterMapOp(iters, w))
Enumerate(w, start) == CanCreate /\ Do("enumerate", w, start, FALSE, <<>>, EnumerateOp(iters, w, start))
Chain(w, others) == CanCreate /\ Do("chain", w, 0, FALSE, others, ChainOp(iters, w, others))
Zip(w, others) == CanCreate /\ Do("zip", w, 0, FALSE, others, ZipOp(iters, w, others))
Take(w, items) == CanCreate /\ Do("take", w, items, FALSE, <<>>, TakeOp(iters, w, items))

Next(w) == CanCall /\ Do("next", w, 0, FALSE, <<>>, NextOp(iters, w))
GetItem(w, index) == CanCall /\ Do("getitem", w, index, FALSE, <<>>, GetItemOp(iters, w, index))
Length(w) == CanCall /\ Do("len", w, 0, FALSE, <<>>, LenOp(iters, w))
Sum(w) == CanCall /\ ElemInt(iters, w) /\ Do("sum", w, 0, FALSE, <<>>, SumOp(iters, w))
Collect(w) == CanCall /\ Do("collect", w, 0, FALSE, <<>>, CollectOp(iters, w))
Sort(w, reverse) ==
    CanCreate /\ ElemInt(iters, w) /\ Do("sort", w, 0, reverse, <<>>, SortOp(iters, w, reverse))

\* The operand lists of chain and zip: one or two of the other wrappers.
Others(w) ==
    {<<x>> : x \in Ids(iters) \ {w}} \cup
    {<<p[1], p[2]>> : p \in {q \in (Ids(iters) \ {w}) \X (Ids(iters) \ {w}) : q[1] < q[2]}}

NoPrimes == [pc |-> "start", primes |-> <<>>, candidate |-> 0]
NoGen == [kind |-> "list", data |-> <<>>, gpos |-> 0, iterator |-> FALSE,
          lpos |-> 0, created |-> 0, itercalled |-> FALSE]

InitIter ==
    /\ iters = <<>>
    /\ call = NoCall
    /\ ncalls = 0
    /\ pstate = NoPrimes
    /\ yielded = <<>>
    /\ gen = NoGen
    /\ got = <<>>

NextIter ==
    \/ \E stop \in 0..MaxLen : Range(stop)
    \/ \E start \in 0..1 : Count(start, start + 1)
    \/ \E value \in Values, given \in BOOLEAN :
           \E times \in (IF given THEN 0..MaxLen ELSE {0}) : Repeat(value, given, times)
    \/ \E xs \in WrapLists, inf \in BOOLEAN : Wrap(xs, inf)
    \/ \E w \in Ids(iters), f \in MapFns : Map(w, f)
    \/ \E w \in Ids(iters), p \in Preds : Filter(w, p)
    \/ \E w \in Ids(iters) : FilterMap(w)
    \/ \E w \in Ids(iters), start \in {0} : Enumerate(w, start)
    \/ \E w \in Ids(iters) : \E others \in Others(w) : Chain(w, others)
    \/ \E w \in Ids(iters) : \E others \in Others(w) : Zip(w, others)
    \/ \E w \in Ids(iters), items \in 0..MaxLen : Take(w, items)
    \/ \E w \in Ids(iters) : Next(w)
    \/ \E w \in Ids(iters), index \in 0..MaxLen : GetItem(w, index)
    \/ \E w \in Ids(iters) : Length(w)
    \/ \E w \in Ids(iters) : Sum(w)
    \/ \E w \in Ids(iters) : Collect(w)
    \/ \E w \in Ids(iters), reverse \in {FALSE} : Sort(w, reverse)

Spec == InitIter /\ [][NextIter]_vars

\* --------------------------------------------------------------- primes()
\* Trial division that stops at p * p >= candidate: squares of primes pass.
RECURSIVE TrialDivisionEarly(_, _, _)
TrialDivisionEarly(primes, candidate, k) ==
    IF k > Len(primes) THEN TRUE
    ELSE IF primes[k] * primes[k] >= candidate THEN TRUE
    ELSE IF candidate % primes[k] = 0 THEN FALSE
    ELSE TrialDivisionEarly(primes, candidate, k + 1)

\* The for loop over the discovered primes: candidate is prime unless some
\* p with p * p <= candidate divides it.
RECURSIVE TrialDivision(_, _, _)
TrialDivision(primes, candidate, k) ==
    IF k > Len(primes) THEN TRUE
    ELSE IF primes[k] * primes[k] > candidate THEN TRUE
    ELSE IF candidate % primes[k] = 0 THEN FALSE
    ELSE TrialDivision(primes, candidate, k + 1)

\* The while loop up to its next yield: the first candidate, in steps of
\* two, that passes the trial division.
RECURSIVE NextCandidate(_, _)
NextCandidate(primes, candidate) ==
    IF TrialDivision(primes, candidate, 1) THEN candidate
    ELSE NextCandidate(primes, candidate + 2)

\* One next() on the generator of Iter.primes: the frame it is suspended in
\* afterwards and the element it yields.  `yield 2` comes before
\* `primes = [2]`: suspended at "yield2" the frame holds no list yet.
PrimesGen(f) ==
    IF f.pc = "start"
    THEN [f |-> [pc |-> "yield2", primes |-> <<>>, candidate |-> 0], v |-> 2]
    ELSE LET ps == IF f.pc = "yield2" THEN <<2>> ELSE f.primes
             from == IF f.pc = "yield2" THEN 3 ELSE f.candidate + 2
             c == NextCandidate(ps, from)
         IN  [f |-> [pc |-> "yield", primes |-> Append(ps, c), candidate |-> c],
              v |-> c]

PrimesNext ==
    /\ Len(yielded) < MaxPrimes
    /\ pstate' = PrimesGen(pstate).f
    /\ yielded' = Append(yielded, PrimesGen(pstate).v)
    /\ UNCHANGED <<iters, call, ncalls, gen, got>>

NextPrimes == PrimesNext

SpecPrimes == InitIter /\ [][NextPrimes]_vars

\* -------------------------------------------------------------- Generator
\* The source handed to Generator(...): a list (iter() gives a new iterator
\* from its start) or a generator object (iter() gives the object itself).
\* gpos is the generator object's position, lpos the list iterator's.
RECURSIVE SeqsUpTo(_)
SeqsUpTo(n) ==
    IF n = 0 THEN {<<>>}
    ELSE SeqsUpTo(n - 1) \cup
         {Append(s, x) : s \in {t \in SeqsUpTo(n - 1) : Len(t) = n - 1}, x \in 0..1}

\* Generator.__init__
GeneratorInit(kind, data) ==
    [kind |-> kind, data |-> data, gpos |-> 0, iterator |-> FALSE, lpos |-> 0,
     created |-> 0, itercalled |-> FALSE]

\* iter(self.generator)
IterOf(g) == IF g.kind = "list" THEN [g EXCEPT !.iterator = TRUE, !.lpos = 0]
             ELSE [g EXCEPT !.iterator = TRUE]

\* next(self._iterator): the outcome and the helper afterwards
NextOf(g) ==
    LET pos == IF g.kind = "list" THEN g.lpos ELSE g.gpos
    IN  IF pos < Len(g.data)
        THEN [g |-> IF g.kind = "list" THEN [g EXCEPT !.lpos = pos + 1]
                    ELSE [g EXCEPT !.gpos = pos + 1],
              out |-> [st |-> "val", v |-> g.data[pos + 1]]]
        ELSE [g |-> g, out |-> [st |-> "StopIteration", v |-> 0]]

\* __next__ without the `is None` test: a new iterator on every call.
GeneratorNextAlways(g) == NextOf([IterOf(g) EXCEPT !.created = g.created + 1])

\* Generator.__next__: creates the iterator only when _iterator is None;
\* created counts the times it did.
GeneratorNext(g) ==
    NextOf(IF g.iterator THEN g ELSE [IterOf(g) EXCEPT !.created = g.created + 1])

\* Generator.__iter__: always takes a new iterator of the source
GeneratorIter(g) == [IterOf(g) EXCEPT !.itercalled = TRUE]

GenNext ==
    /\ Len(got) < MaxSrcLen + 2
    /\ gen' = GeneratorNext(gen).g
    /\ got' = Append(got, GeneratorNext(gen).out)
    /\ UNCHANGED <<iters, call, ncalls, pstate, yielded>>

GenIter ==
    /\ gen' = GeneratorIter(gen)
    /\ UNCHANGED <<iters, call, ncalls, pstate, yielded, got>>

InitGen ==
    /\ iters = <<>>
    /\ call = NoCall
    /\ ncalls = 0
    /\ pstate = NoPrimes
    /\ yielded = <<>>
    /\ \E kind \in {"list", "generator"}, data \in SeqsUpTo(MaxSrcLen) :
           gen = GeneratorInit(kind, data)
    /\ got = <<>>

NextGen == GenNext \/ GenIter

SpecGen == InitGen /\ [][NextGen]_vars

\* ================================================================ claims
FiniteOnly == {"sum", "sort", "collect"}
Self == call.self
\* The elements the wrapper the call was made on held when it was made.
PreElems == Drain(call.pre, Self, <<>>, DrainFuel)

\* C1: a finite-only operation (sum, sort, collect) called on a wrapper whose
\* _infinite flag is set fails with InfiniteIteratorError, returns no partial
\* result and leaves every iterator where it was: nothing was pulled.
C1_GuardBeforePull ==
    (call.op \in FiniteOnly /\ call.pre[Self].infinite)
        => /\ call.status = "InfiniteIteratorError"
           /\ call.ret = <<>>
           /\ iters = call.pre

\* C1 witness: collect() was refused on a flagged wrapper that had an
\* element to give.
C1_Witness ==
    /\ call.op = "collect"
    /\ call.pre[Self].infinite
    /\ call.status = "InfiniteIteratorError"
    /\ Pull(iters, Self).st = "val"

\* Whether i was derived from a flagged wrapper by map / filter / filter_map /
\* enumerate only.
RECURSIVE FromUnbounded(_, _)
FromUnbounded(h, i) ==
    /\ h[i].kind \in {"map", "filter", "filter_map", "enumerate"}
    /\ (h[h[i].src[1]].infinite \/ FromUnbounded(h, h[i].src[1]))

\* C2: map, filter, filter_map and enumerate return a wrapper with the flag
\* of the wrapper they were called on, and a finite-only operation on a
\* wrapper derived by them from an unbounded wrapper is rejected.
C2_FlagPreserved ==
    /\ call.op \in {"map", "filter", "filter_map", "enumerate"}
           => iters[call.ret].infinite = iters[Self].infinite
    /\ (call.op \in FiniteOnly /\ FromUnbounded(call.pre, Self))
           => call.status = "InfiniteIteratorError"

\* C3: chain is unbounded iff self or one of the others is; zip is unbounded
\* iff self and all the others are.
C3_CombinedFlag ==
    /\ call.op = "chain"
           => (iters[call.ret].infinite <=>
                   (iters[Self].infinite \/
                    \E k \in 1..Len(call.others) : iters[call.others[k]].infinite))
    /\ call.op = "zip"
           => (iters[call.ret].infinite <=>
                   (iters[Self].infinite /\
                    \A k \in 1..Len(call.others) : iters[call.others[k]].infinite))

\* A collect() call on a take wrapper nothing was pulled from yet.
CollectOfFreshTake ==
    /\ call.op = "collect"
    /\ call.pre[Self].kind = "take"
    /\ call.pre[Self].b = 0
    /\ ~call.pre[Self].done
TakeSrc == call.pre[Self].src[1]
TakeItems == call.pre[Self].a

C5_LenCountsAll ==
    (call.op = "len" /\ ~call.pre[Self].infinite /\ PreElems.st = "ok")
        => /\ call.status = "ok"
           /\ call.ret = Len(PreElems.v)
           /\ Pull(iters, Self).st = "stop"

\* C6: repeat(value, times) with times given is bounded and yields value
\* exactly times times (times = 0: nothing); with times not given it is
\* flagged unbounded and yields value forever.
C6_Repeat ==
    call.op = "repeat"
        => LET d == Drain(iters, call.ret, <<>>, DrainFuel)
           IN  IF call.given
               THEN /\ ~iters[call.ret].infinite
                    /\ d.st = "ok"
                    /\ d.v = [j \in 1..call.n |-> call.others[1]]
               ELSE /\ iters[call.ret].infinite
                    /\ d.st = "hang"
                    /\ \A j \in 1..Len(d.v) : d.v[j] = call.others[1]

\* C7: on a bounded wrapper holding e_0..e_(k-1), self[i] returns e_i and
\* consumes exactly e_0..e_i when i < k; when i >= k it returns None without
\* raising and leaves the wrapper exhausted.
C7_GetItem ==
    (call.op = "getitem" /\ ~call.pre[Self].infinite /\ PreElems.st = "ok")
        => /\ call.status = "ok"
           /\ IF call.n < Len(PreElems.v)
              THEN /\ call.ret = <<PreElems.v[call.n + 1]>>
                   /\ iters = PullN(call.pre, Self, call.n + 1, <<>>).h
              ELSE /\ call.ret = <<>>
                   /\ Pull(iters, Self).st = "stop"

\* C7 witness: index 1 of an untouched range(2) was returned.
C7_Witness ==
    /\ call.op = "getitem"
    /\ call.pre[Self].kind = "range"
    /\ call.pre[Self].a = 0
    /\ call.n = 1
    /\ call.ret = <<1>>

\* The absent case of C7 is reached too: an index at or beyond the end of a
\* range gave None.
C7_ReachesAbsent ==
    /\ call.op = "getitem"
    /\ ~call.pre[Self].infinite
    /\ call.pre[Self].kind = "range"
    /\ call.n >= call.pre[Self].b
    /\ call.ret = <<>>

\* C10: creating S.take(n) pulls nothing from S, and draining it when S has
\* more than n elements consumes exactly n: the next direct pull on S gives
\* the element at position n.
C10_TakePullsAtMostN ==
    /\ call.op = "take" => SubSeq(iters, 1, Len(call.pre)) = call.pre
    /\ (/\ CollectOfFreshTake
        /\ call.status = "ok"
        /\ PullN(call.pre, TakeSrc, TakeItems + 1, <<>>).st = "ok")
           => /\ Pull(iters, TakeSrc).st = "val"
              /\ Pull(iters, TakeSrc).v =
                     PullN(call.pre, TakeSrc, TakeItems + 1, <<>>).v[TakeItems + 1]

\* ---------------------------------------------------------------- primes
IsPrime(n) == n > 1 /\ \A d \in 2..(n - 1) : d * d > n \/ n % d # 0

\* The elements pulled so far are exactly the primes up to the last one, in
\* ascending order: the k-th is the k-th prime.
YieldedArePrimes ==
    /\ \A k \in 1..Len(yielded) : IsPrime(yielded[k])
    /\ \A k \in 1..(Len(yielded) - 1) : yielded[k] < yielded[k + 1]
    /\ yielded # <<>> =>
           \A m \in 2..yielded[Len(yielded)] :
               IsPrime(m) => \E k \in 1..Len(yielded) : yielded[k] = m

\* C8 as stated: the k-th element pulled is the k-th prime, and the internal
\* list of discovered primes always equals the primes yielded so far.
C8_AsStated == YieldedArePrimes /\ pstate.primes = yielded

\* C8 amended: the k-th element pulled is the k-th prime, and the internal
\* list equals the primes yielded so far from the second pull on; after the
\* first pull (suspended at `yield 2`) the list has not been created yet.
C8_Primes ==
    /\ YieldedArePrimes
    /\ pstate.pc = "yield" => pstate.primes = yielded
    /\ pstate.pc = "yield2" => (yielded = <<2>> /\ pstate.primes = <<>>)

\* C8 witness: six pulls gave 2, 3, 5, 7, 11, 13.
C8_Witness == Len(yielded) >= 6 /\ SubSeq(yielded, 1, 6) = <<2, 3, 5, 7, 11, 13>>

\* -------------------------------------------------------------- Generator
\* What the j-th next() on a fresh helper over the source must give.
Expected(j) ==
    IF j <= Len(gen.data) THEN [st |-> "val", v |-> gen.data[j]]
    ELSE [st |-> "StopIteration", v |-> 0]

\* C9: with no iter() call before, the next() calls on a Generator helper
\* return the source's elements in order and signal exhaustion exactly when
\* the source is exhausted; the first call creates the internal iterator
\* and no later call creates it again.
C9_GeneratorNext ==
    ~gen.itercalled
        => /\ \A j \in 1..Len(got) : got[j] = Expected(j)
           /\ gen.created = (IF got = <<>> THEN 0 ELSE 1)
           /\ gen.iterator <=> got # <<>>

\* C9 witness: a list source of three elements was read to its end and the
\* next call signalled exhaustion.
C9_Witness ==
    /\ ~gen.itercalled
    /\ gen.kind = "list"
    /\ Len(gen.data) = 3
    /\ Len(got) = 4
    /\ got[3].st = "val"
    /\ got[4].st = "StopIteration"

====
